---- MODULE Spec2Model ----
(***************************************************************************)
(* Model of scripts/crawl-docs.py: main, scrape_site (the bounded          *)
(* breadth-first crawl loop) and scrape_single_page.                       *)
(*                                                                         *)
(* The fetch collaborator (AsyncWebCrawler.arun) and the filesystem are    *)
(* the environment: a fetch returns success with any list of internal      *)
(* links or failure, a file write succeeds or raises.  A step of the model *)
(* is the code between two suspension points (await) of the coroutine.     *)
(***************************************************************************)
EXTENDS Integers, Sequences, FiniteSets, TLC

\* ---- bounds of the model ----
NumUrls == 3        \* URLs of the site are 1..NumUrls
MaxLinks == 2       \* longest list of internal links a page carries
MaxPagesBound == 3  \* --max-pages ranges over -1..MaxPagesBound
MaxDepthBound == 2  \* --depth ranges over -1..MaxDepthBound

Urls == 1..NumUrls
\* the href '' that `link_obj.get('href', '')` yields for a link without href
EmptyHref == 0
Hrefs == Urls \cup {EmptyHref}
\* the lists result.links['internal'] can hold (None / {} behave as << >>)
LinkLists == UNION {[1..n -> Hrefs] : n \in 0..MaxLinks}

VARIABLES
  pc,            \* position of the coroutine
  single_page,   \* main: --single given
  start_url,     \* main: argv[1]
  max_pages,     \* main: --max-pages
  depth,         \* main: --depth
  visited,       \* scrape_site: visited
  to_visit,      \* scrape_site: to_visit, a list of <<url, depth>>
  pages_scraped, \* scrape_site: pages_scraped
  cur,           \* scrape_site: <<url, current_depth>> of the last pop(0)
  crawler,       \* the AsyncWebCrawler context: "none", "open", "closed"
  entered,       \* number of __aenter__ calls on the crawler
  released,      \* number of __aexit__ calls on the crawler
  fetchLog,      \* every crawler.arun call so far, in order, with its outcome
  discardLog,    \* every entry discarded at line 72 so far, in order
  written,       \* the URLs whose document was written, in order
  files,         \* the output directory: file name -> URL of its document
  slept,         \* an asyncio.sleep(0.5) completed since the last arun call
  ret,           \* value returned by scrape_site / scrape_single_page
  exitCode       \* argument of sys.exit, -1 while the process runs

vars == <<pc, single_page, start_url, max_pages, depth, visited, to_visit,
          pages_scraped, cur, crawler, entered, released, fetchLog,
          discardLog, written, files, slept, ret, exitCode>>

NoEntry == <<0, 0>>
NoRet == "none"

\* ---- helpers translated from the loop body ----

\* LoopCond with the quota counting the arun calls instead of the saved pages
LoopCondCountsAttempts == to_visit # <<>> /\ Len(fetchLog) < max_pages
\* LoopCond with the quota compared by <= (one page too many)
LoopCondOffByOne == to_visit # <<>> /\ pages_scraped <= max_pages
\* line 68: while to_visit and pages_scraped < max_pages
LoopCond == to_visit # <<>> /\ pages_scraped < max_pages

\* WithinDepth with the limit itself excluded
WithinDepthStrict(d) == d < depth
\* WithinDepth with the limit taken one level too deep
WithinDepthOffByOne(d) == d <= depth + 1
\* lines 71, 105: the depth limit.  Line 71 discards on
\* `current_depth > depth`, i.e. ~WithinDepth(current_depth); line 105
\* follows links on `current_depth < depth`, i.e. WithinDepth(current_depth + 1)
WithinDepth(d) == d <= depth

\* Skip without the visited test
SkipNoVisitedCheck(u, d) == ~WithinDepth(d)
\* line 71: if url in visited or current_depth > depth: continue
Skip(u, d) == u \in visited \/ ~WithinDepth(d)

\* NewEntries that also leaves out the URLs already pending in to_visit
RECURSIVE NewEntriesDedup(_, _)
NewEntriesDedup(links, d) ==
  IF links = <<>> THEN <<>>
  ELSE LET h == Head(links)
           rest == NewEntriesDedup(Tail(links), d)
       IN IF /\ h # EmptyHref
             /\ h \notin visited
             /\ \A i \in 1..Len(to_visit) : to_visit[i][1] # h
          THEN <<<<h, d + 1>>>> \o rest
          ELSE rest

\* NewEntries without the visited test of line 110: every non-empty href is
\* queued
RECURSIVE NewEntriesUnfiltered(_, _)
NewEntriesUnfiltered(links, d) ==
  IF links = <<>> THEN <<>>
  ELSE LET h == Head(links)
           rest == NewEntriesUnfiltered(Tail(links), d)
       IN IF h # EmptyHref THEN <<<<h, d + 1>>>> \o rest ELSE rest

\* lines 108-111: the entries appended for one page's internal links
RECURSIVE NewEntries(_, _)
NewEntries(links, d) ==
  IF links = <<>> THEN <<>>
  ELSE LET h == Head(links)
           rest == NewEntries(Tail(links), d)
       IN IF h # EmptyHref /\ h \notin visited
          THEN <<<<h, d + 1>>>> \o rest
          ELSE rest

\* Enqueue with the new entries put in front of the list (insert at 0)
EnqueueAtHead(links, d) ==
  IF WithinDepth(d + 1) THEN NewEntries(links, d) \o to_visit ELSE to_visit
\* Enqueue without the depth test of line 105: the depth limit is left to
\* the test at dequeue (line 71)
EnqueueUnguarded(links, d) == to_visit \o NewEntries(links, d)
\* lines 105-111: to_visit after link extraction on a page at depth d
Enqueue(links, d) ==
  IF WithinDepth(d + 1) THEN to_visit \o NewEntries(links, d) ELSE to_visit

\* line 109: the URLs a list of internal links names ('' left out)
Targets(links) == {links[i] : i \in 1..Len(links)} \ {EmptyHref}

\* the record of one arun call: its URL, the depth of its entry, once it has
\* returned its outcome and, once the document is written, the URLs the page
\* links to (an exception of the write leaves the result unread)
Call(u, d) == [url |-> u, depth |-> d, res |-> "pending", links |-> {}]
Returned(r) == [fetchLog EXCEPT ![Len(fetchLog)].res = r]
ReturnedOk(links) ==
  [fetchLog EXCEPT ![Len(fetchLog)].res = "ok",
                   ![Len(fetchLog)].links = Targets(links)]

\* ---- file names ----

\* strings are sequences of characters
Slash == "/"
Index == <<"i", "n", "d", "e", "x">>
Md == <<".", "m", "d">>
\* the default filename_prefix="" of scrape_single_page, which main never sets
NoPrefix == <<>>

\* lines 32, 89: urlparse(url).path of the URLs of the site
PathOf(u) ==
  CASE u = 1 -> <<"/">>
    [] u = 2 -> <<"/", "a", "/", "b", "/">>
    [] u = 3 -> <<"/", "a", "_", "b">>
    [] u = 4 -> <<>>
    [] OTHER -> <<"/", "a">> \o [i \in 1..(u - 4) |-> "a"]

\* str.lstrip('/') and str.rstrip('/')
RECURSIVE LStrip(_)
LStrip(s) == IF s # <<>> /\ Head(s) = Slash THEN LStrip(Tail(s)) ELSE s
RECURSIVE RStrip(_)
RStrip(s) ==
  IF s # <<>> /\ s[Len(s)] = Slash
  THEN RStrip(SubSeq(s, 1, Len(s) - 1))
  ELSE s
\* Strip that removes the leading separators only
StripLeading(s) == LStrip(s)
\* lines 36, 90: .strip('/')
Strip(s) == RStrip(LStrip(s))
\* lines 36, 90: .replace('/', '_')
Replace(s) == [i \in 1..Len(s) |-> IF s[i] = Slash THEN "_" ELSE s[i]]

\* lines 89-91: the file name scrape_site gives the page of a path
SiteFilename(path) ==
  LET path_parts == Replace(Strip(path))
  IN (IF path_parts # <<>> THEN path_parts ELSE Index) \o Md

\* lines 32-37: the file name scrape_single_page gives the page of a path
SingleFilename(path, filename_prefix) ==
  IF filename_prefix # <<>>
  THEN filename_prefix \o Md
  ELSE LET path_parts == Replace(Strip(path))
       IN (IF path_parts # <<>> THEN path_parts ELSE Index) \o Md

\* WriteFile that leaves an existing file as it is
WriteFileKeepsFirst(name, u) ==
  [f \in DOMAIN files \cup {name} |->
     IF f \in DOMAIN files THEN files[f] ELSE u]
\* lines 45-49, 95-99: open(filepath, 'w') creates or truncates the file
WriteFile(name, u) ==
  [f \in DOMAIN files \cup {name} |-> IF f = name THEN u ELSE files[f]]

\* ---- counters of the crawl report, read off the state ----
attempted == Len(fetchLog)
failed == Cardinality({i \in 1..Len(fetchLog) : fetchLog[i].res = "fail"})
succeeded == pages_scraped

Init ==
  /\ pc = "main"
  /\ single_page \in BOOLEAN
  \* the crawl treats URLs as opaque keys: the seed is the first of them
  /\ start_url = 1
  /\ max_pages \in -1..MaxPagesBound
  /\ depth \in -1..MaxDepthBound
  /\ visited = {}
  /\ to_visit = <<>>
  /\ pages_scraped = 0
  /\ cur = NoEntry
  /\ crawler = "none"
  /\ entered = 0
  /\ released = 0
  /\ fetchLog = <<>>
  /\ discardLog = <<>>
  /\ written = <<>>
  /\ files = <<>>
  /\ slept = FALSE
  /\ ret = NoRet
  /\ exitCode = -1

\* ---- scrape_site ----

\* lines 179, 57-67: main calls scrape_site; locals are set up and the
\* crawler context is entered
SiteEnter ==
  /\ pc = "main"
  /\ ~single_page
  /\ visited' = {}
  /\ to_visit' = <<<<start_url, 0>>>>
  /\ pages_scraped' = 0
  /\ crawler' = "open"
  /\ entered' = entered + 1
  /\ pc' = "loop"
  /\ UNCHANGED <<single_page, start_url, max_pages, depth, cur, released,
                 fetchLog, discardLog, written, files, slept, ret, exitCode>>

\* Discard reading the head with to_visit[0] instead of pop(0)
DiscardNoPop ==
  /\ pc = "loop"
  /\ LoopCond
  /\ Skip(Head(to_visit)[1], Head(to_visit)[2])
  /\ cur' = Head(to_visit)
  /\ UNCHANGED <<pc, single_page, start_url, max_pages, depth, visited,
                 to_visit, pages_scraped, crawler, entered, released,
                 fetchLog, discardLog, written, files, slept, ret, exitCode>>
\* lines 68-72: the loop test passes, the head is popped and discarded
Discard ==
  /\ pc = "loop"
  /\ LoopCond
  /\ Skip(Head(to_visit)[1], Head(to_visit)[2])
  /\ cur' = Head(to_visit)
  /\ to_visit' = Tail(to_visit)
  /\ discardLog' = Append(discardLog, Head(to_visit))
  /\ UNCHANGED <<pc, single_page, start_url, max_pages, depth, visited,
                 pages_scraped, crawler, entered, released, fetchLog, written,
                 files, slept, ret, exitCode>>

\* lines 68-77: the loop test passes, the head is popped, marked visited and
\* crawler.arun(url) is called
Fetch ==
  /\ pc = "loop"
  /\ LoopCond
  /\ ~Skip(Head(to_visit)[1], Head(to_visit)[2])
  /\ cur' = Head(to_visit)
  /\ to_visit' = Tail(to_visit)
  /\ visited' = visited \cup {Head(to_visit)[1]}
  /\ fetchLog' = Append(fetchLog, Call(Head(to_visit)[1], Head(to_visit)[2]))
  /\ slept' = FALSE
  /\ pc' = "fetch"
  /\ UNCHANGED <<single_page, start_url, max_pages, depth, pages_scraped,
                 crawler, entered, released, discardLog, written, files, ret,
                 exitCode>>

\* FetchFails with the page counted before the success test
FetchFailsCounted ==
  /\ pc = "fetch"
  /\ fetchLog' = Returned("fail")
  /\ pages_scraped' = pages_scraped + 1
  /\ pc' = "loop"
  /\ UNCHANGED <<single_page, start_url, max_pages, depth, visited, to_visit,
                 cur, crawler, entered, released, discardLog, written, files,
                 slept, ret, exitCode>>
\* FetchFails with a retry: the URL is unmarked and put back on the list
FetchFailsRequeue ==
  /\ pc = "fetch"
  /\ fetchLog' = Returned("fail")
  /\ visited' = visited \ {cur[1]}
  /\ to_visit' = Append(to_visit, cur)
  /\ pc' = "loop"
  /\ UNCHANGED <<single_page, start_url, max_pages, depth, pages_scraped, cur,
                 crawler, entered, released, discardLog, written, files,
                 slept, ret, exitCode>>
\* lines 79-81: arun returns with success false; continue
FetchFails ==
  /\ pc = "fetch"
  /\ fetchLog' = Returned("fail")
  /\ pc' = "loop"
  /\ UNCHANGED <<single_page, start_url, max_pages, depth, visited, to_visit,
                 pages_scraped, cur, crawler, entered, released, discardLog,
                 written, files, slept, ret, exitCode>>

\* lines 83-114: arun returns with success true, the document is written,
\* the page is counted and its links are enqueued; then the pacing sleep starts
FetchSucceeds ==
  /\ pc = "fetch"
  /\ \E links \in LinkLists :
       /\ to_visit' = Enqueue(links, cur[2])
       /\ fetchLog' = ReturnedOk(links)
  /\ written' = Append(written, cur[1])
  /\ files' = WriteFile(SiteFilename(PathOf(cur[1])), cur[1])
  /\ pages_scraped' = pages_scraped + 1
  /\ pc' = "sleep"
  /\ UNCHANGED <<single_page, start_url, max_pages, depth, visited, cur,
                 crawler, entered, released, discardLog, slept, ret, exitCode>>

\* lines 93-99: arun returns with success true and mkdir / open / write raises
WriteFails ==
  /\ pc = "fetch"
  /\ fetchLog' = Returned("ok")
  /\ pc' = "raised"
  /\ UNCHANGED <<single_page, start_url, max_pages, depth, visited, to_visit,
                 pages_scraped, cur, crawler, entered, released, discardLog,
                 written, files, slept, ret, exitCode>>

\* line 114: await asyncio.sleep(0.5) completes
Sleep ==
  /\ pc = "sleep"
  /\ slept' = TRUE
  /\ pc' = "loop"
  /\ UNCHANGED <<single_page, start_url, max_pages, depth, visited, to_visit,
                 pages_scraped, cur, crawler, entered, released, fetchLog,
                 discardLog, written, files, ret, exitCode>>

\* line 68: the loop test fails; control leaves the `async with` block
LoopExit ==
  /\ pc = "loop"
  /\ ~LoopCond
  /\ pc' = "aexit"
  /\ UNCHANGED <<single_page, start_url, max_pages, depth, visited, to_visit,
                 pages_scraped, cur, crawler, entered, released, fetchLog,
                 discardLog, written, files, files, slept, ret, exitCode>>

\* lines 67, 116-117: __aexit__ on the normal path, then return pages_scraped
SiteReturn ==
  /\ pc = "aexit"
  /\ ~single_page
  /\ crawler' = "closed"
  /\ released' = released + 1
  /\ ret' = pages_scraped
  /\ pc' = "returned"
  /\ UNCHANGED <<single_page, start_url, max_pages, depth, visited, to_visit,
                 pages_scraped, cur, entered, fetchLog, discardLog, written,
                 files, slept, exitCode>>

\* AexitOnError for a crawler closed by a call after the loop instead of
\* by the `async with` block
AexitLeak ==
  /\ pc = "raised"
  /\ pc' = "caught"
  /\ UNCHANGED <<single_page, start_url, max_pages, depth, visited, to_visit,
                 pages_scraped, cur, crawler, entered, released, fetchLog,
                 discardLog, written, files, files, slept, ret, exitCode>>
\* lines 19, 67: __aexit__ while an exception propagates out of the block
AexitOnError ==
  /\ pc = "raised"
  /\ crawler' = "closed"
  /\ released' = released + 1
  /\ pc' = "caught"
  /\ UNCHANGED <<single_page, start_url, max_pages, depth, visited, to_visit,
                 pages_scraped, cur, entered, fetchLog, discardLog, written,
                 files, slept, ret, exitCode>>

\* ---- scrape_single_page ----

\* lines 171, 19-20: main calls scrape_single_page; the crawler context is
\* entered and crawler.arun(url) is called
SingleEnter ==
  /\ pc = "main"
  /\ single_page
  /\ crawler' = "open"
  /\ entered' = entered + 1
  /\ fetchLog' = Append(fetchLog, Call(start_url, 0))
  /\ pc' = "sfetch"
  /\ UNCHANGED <<single_page, start_url, max_pages, depth, visited, to_visit,
                 pages_scraped, cur, released, discardLog, written, files,
                 slept, ret, exitCode>>

\* SingleFails without the `return False`: the failed page is written too
SingleFailsFallsThrough ==
  /\ pc = "sfetch"
  /\ fetchLog' = Returned("fail")
  /\ written' = Append(written, start_url)
  /\ files' = WriteFile(SingleFilename(PathOf(start_url), NoPrefix), start_url)
  /\ ret' = TRUE
  /\ pc' = "aexit"
  /\ UNCHANGED <<single_page, start_url, max_pages, depth, visited, to_visit,
                 pages_scraped, cur, crawler, entered, released, discardLog,
                 slept, exitCode>>
\* lines 22-24: arun returns with success false; return False
SingleFails ==
  /\ pc = "sfetch"
  /\ fetchLog' = Returned("fail")
  /\ ret' = FALSE
  /\ pc' = "aexit"
  /\ UNCHANGED <<single_page, start_url, max_pages, depth, visited, to_visit,
                 pages_scraped, cur, crawler, entered, released, discardLog,
                 written, files, slept, exitCode>>

\* lines 26-52: arun returns with success true, the document is written;
\* return True
SingleSucceeds ==
  /\ pc = "sfetch"
  /\ \E links \in LinkLists : fetchLog' = ReturnedOk(links)
  /\ written' = Append(written, start_url)
  /\ files' = WriteFile(SingleFilename(PathOf(start_url), NoPrefix), start_url)
  /\ ret' = TRUE
  /\ pc' = "aexit"
  /\ UNCHANGED <<single_page, start_url, max_pages, depth, visited, to_visit,
                 pages_scraped, cur, crawler, entered, released, discardLog,
                 slept, exitCode>>

\* lines 42-49: arun returns with success true and mkdir / open / write raises
SingleWriteFails ==
  /\ pc = "sfetch"
  /\ fetchLog' = Returned("ok")
  /\ pc' = "raised"
  /\ UNCHANGED <<single_page, start_url, max_pages, depth, visited, to_visit,
                 pages_scraped, cur, crawler, entered, released, discardLog,
                 written, files, slept, ret, exitCode>>

\* line 19: __aexit__ on the return paths of scrape_single_page
SingleReturn ==
  /\ pc = "aexit"
  /\ single_page
  /\ crawler' = "closed"
  /\ released' = released + 1
  /\ pc' = "returned"
  /\ UNCHANGED <<single_page, start_url, max_pages, depth, visited, to_visit,
                 pages_scraped, cur, entered, fetchLog, discardLog, written,
                 files, slept, ret, exitCode>>

\* ---- main ----

\* ExitStatus with `pages >= 0` for `pages > 0`
ExitStatusNonNegative(r) ==
  IF single_page THEN (IF r THEN 0 ELSE 1) ELSE (IF r >= 0 THEN 0 ELSE 1)
\* lines 177, 184: the exit status computed from the returned value
ExitStatus(r) ==
  IF single_page THEN (IF r THEN 0 ELSE 1) ELSE (IF r > 0 THEN 0 ELSE 1)

\* lines 172-177, 180-184: sys.exit with the status of the returned value
\* (SystemExit is not an Exception, so line 185 does not catch it)
MainExit ==
  /\ pc = "returned"
  /\ exitCode' = ExitStatus(ret)
  /\ pc' = "exited"
  /\ UNCHANGED <<single_page, start_url, max_pages, depth, visited, to_visit,
                 pages_scraped, cur, crawler, entered, released, fetchLog,
                 discardLog, written, files, slept, ret>>

\* lines 185-189: except Exception: report, sys.exit(1)
MainExcept ==
  /\ pc = "caught"
  /\ exitCode' = 1
  /\ pc' = "exited"
  /\ UNCHANGED <<single_page, start_url, max_pages, depth, visited, to_visit,
                 pages_scraped, cur, crawler, entered, released, fetchLog,
                 discardLog, written, files, slept, ret>>

Next ==
  \/ SiteEnter
  \/ Discard
  \/ Fetch
  \/ FetchFails
  \/ FetchSucceeds
  \/ WriteFails
  \/ Sleep
  \/ LoopExit
  \/ SiteReturn
  \/ AexitOnError
  \/ SingleEnter
  \/ SingleFails
  \/ SingleSucceeds
  \/ SingleWriteFails
  \/ SingleReturn
  \/ MainExit
  \/ MainExcept

Spec == Init /\ [][Next]_vars

\* every await of the coroutine returns: the event loop keeps running the
\* single task until it exits
FairSpec == Spec /\ WF_vars(Next)

\* ---- properties ----

Last(q) == q[Len(q)]
\* the arun calls that returned with success
OkCalls == {i \in 1..Len(fetchLog) : fetchLog[i].res = "ok"}
\* a write raised: a successful fetch has no document
Errored == Cardinality(OkCalls) > Len(written)

\* C1: in a crawl run no URL is passed to crawler.arun twice, whatever the
\* links and the outcomes of the fetches.
C1_FetchedOnce ==
  \A i, j \in 1..Len(fetchLog) :
    i # j => fetchLog[i].url # fetchLog[j].url

\* a URL whose fetch failed is at the head of the frontier again, and the
\* loop is about to pop it
C1_Witness ==
  /\ ~single_page
  /\ pc = "loop"
  /\ LoopCond
  /\ \E i \in 1..Len(fetchLog) :
       fetchLog[i].url = Head(to_visit)[1] /\ fetchLog[i].res = "fail"

\* C2: in a crawl run with depth >= 0 every arun call is made for an entry
\* whose depth is at most `depth`.
C2_FetchWithinDepth ==
  (~single_page /\ depth >= 0) =>
    \A i \in 1..Len(fetchLog) : fetchLog[i].depth <= depth

\* a page at the depth limit was fetched successfully after its parent
C2_Witness ==
  /\ ~single_page
  /\ depth >= 1
  /\ pc = "sleep"
  /\ cur[2] = depth
  /\ Last(fetchLog).depth = depth

\* C3: in a crawl run with max_pages >= 0, pages_scraped <= max_pages in
\* every state, the returned value included.
C3_QuotaRespected ==
  (~single_page /\ max_pages >= 0) =>
    /\ pages_scraped <= max_pages
    /\ pc = "returned" => ret <= max_pages

\* the loop was left on the quota with entries still pending
C3_Witness ==
  /\ ~single_page
  /\ pc = "returned"
  /\ max_pages >= 1
  /\ ret = max_pages
  /\ to_visit # <<>>

\* C4: at every loop-iteration boundary succeeded + failed = attempted, and a
\* discarded entry changes none of the three counters.
C4_CountersBalance ==
  /\ [](~single_page /\ pc \in {"loop", "aexit", "returned"}
          => /\ succeeded + failed = attempted
             /\ succeeded = Len(written))
  /\ [][(~single_page /\ pc = "loop" /\ pc' = "loop")
          => /\ attempted' = attempted
             /\ failed' = failed
             /\ succeeded' = succeeded]_vars

\* at a loop boundary after a success, a failure and a discarded entry
C4_Witness ==
  /\ ~single_page
  /\ pc = "loop"
  /\ succeeded >= 1
  /\ failed >= 1
  /\ discardLog # <<>>

\* C5: every crawl run terminates, and (max_pages >= 0) the loop is left
\* with the frontier empty or pages_scraped = max_pages.
C5_Terminates ==
  /\ <>(pc = "exited")
  /\ [](~single_page /\ pc = "aexit" /\ max_pages >= 0
          => to_visit = <<>> \/ pages_scraped = max_pages)

\* a run that met an already visited URL (cycle, self-link or fan-in) has
\* ended on the empty frontier
C5_Witness ==
  /\ ~single_page
  /\ pc = "exited"
  /\ to_visit = <<>>
  /\ pages_scraped < max_pages
  /\ Len(fetchLog) >= 2
  /\ \E i \in 1..Len(discardLog) : discardLog[i][1] \in visited

IsPrefix(p, q) ==
  Len(p) <= Len(q) /\ \A i \in 1..Len(p) : p[i] = q[i]

\* C6: the crawl is breadth-first: the frontier changes only by removing its
\* head or appending at its tail, appended entries are one deeper than the
\* page they were found on, and the depths of the dequeued entries and of the
\* fetched pages never decrease.
C6_BreadthFirst ==
  /\ [][(pc # "main" /\ to_visit' # to_visit) =>
          \/ /\ to_visit # <<>>
             /\ to_visit' = Tail(to_visit)
             /\ cur' = Head(to_visit)
             /\ cur'[2] >= cur[2]
          \/ /\ IsPrefix(to_visit, to_visit')
             /\ \A i \in (Len(to_visit) + 1)..Len(to_visit') :
                  to_visit'[i][2] = cur[2] + 1]_vars
  /\ [](\A i, j \in 1..Len(fetchLog) :
          i < j => fetchLog[i].depth <= fetchLog[j].depth)
  /\ [](\A i, j \in 1..Len(to_visit) :
          i < j => to_visit[i][2] <= to_visit[j][2])
  /\ [](\A i \in 1..Len(to_visit) : cur[2] <= to_visit[i][2])

\* entries of two depths are pending at once
C6_Witness ==
  /\ ~single_page
  /\ fetchLog # <<>>
  /\ \E i, j \in 1..Len(to_visit) : to_visit[i][2] < to_visit[j][2]

\* C7: when a fetch fails in a crawl run, the URL is already visited, nothing
\* is written or enqueued, pages_scraped and the frontier are unchanged, the
\* loop goes on, and the URL is never fetched again.
C7_FailureSkipsPage ==
  /\ [][(~single_page /\ pc = "fetch" /\ pc' # "fetch"
           /\ Last(fetchLog').res = "fail") =>
          /\ cur[1] \in visited
          /\ visited' = visited
          /\ Last(fetchLog').url = cur[1]
          /\ written' = written
          /\ to_visit' = to_visit
          /\ pages_scraped' = pages_scraped
          /\ pc' = "loop"]_vars
  /\ [](\A i, j \in 1..Len(fetchLog) :
          (i < j /\ fetchLog[i].res = "fail")
            => /\ fetchLog[j].url # fetchLog[i].url
               /\ fetchLog[i].url \in visited)

\* another page was fetched after a failed one
C7_Witness ==
  /\ ~single_page
  /\ \E i \in 1..Len(fetchLog) :
       i < Len(fetchLog) /\ fetchLog[i].res = "fail"

\* C8: between two successive arun calls of a crawl run the pacing sleep
\* has been applied.
C8_PacedFetches ==
  [][(~single_page /\ fetchLog # <<>> /\ Len(fetchLog') > Len(fetchLog))
       => slept]_vars

\* C9: the crawler context is entered once before the loop and left once
\* after it on every exit path, and arun is called only while it is open.
C9_CrawlerScoped ==
  /\ [](/\ entered <= 1
        /\ released <= entered
        /\ (crawler = "open") <=> (entered = 1 /\ released = 0)
        /\ pc = "main" => (entered = 0 /\ fetchLog = <<>>)
        /\ pc \in {"loop", "fetch", "sleep", "sfetch", "raised", "aexit"}
             => crawler = "open"
        /\ pc \in {"returned", "caught", "exited"}
             => (entered = 1 /\ released = 1 /\ crawler = "closed"))
  /\ [][fetchLog' # fetchLog => (crawler' = "open" /\ released' = 0)]_vars

\* a run aborted by a write error after a page had been saved has ended
C9_Witness ==
  /\ ~single_page
  /\ pc = "exited"
  /\ Errored
  /\ pages_scraped >= 1
  /\ released = 1

\* C10: the exit status is 0 exactly when the run completed without error
\* and, in crawl mode, pages_scraped >= 1 or, in single mode, the fetch
\* succeeded; otherwise it is 1.
C10_ExitStatus ==
  pc = "exited" =>
    /\ exitCode \in {0, 1}
    /\ exitCode = 0 <=>
         /\ ~Errored
         /\ single_page => fetchLog[1].res = "ok"
         /\ ~single_page => pages_scraped >= 1

\* a crawl that had saved a page was aborted by a write error and exits 1
C10_Witness ==
  /\ ~single_page
  /\ pc = "exited"
  /\ exitCode = 1
  /\ pages_scraped >= 1

\* ---- the part of the site the run has seen ----

Fetched == {fetchLog[i].url : i \in 1..Len(fetchLog)}
\* the links of u's page, if u was fetched successfully
Edges(u) ==
  UNION {fetchLog[i].links :
           i \in {k \in OkCalls : fetchLog[k].url = u}}
\* the URLs at most n links away from the seed, through pages fetched
\* successfully
RECURSIVE Reach(_)
Reach(n) ==
  IF n <= 0 THEN {start_url}
  ELSE LET r == Reach(n - 1) IN r \cup UNION {Edges(u) : u \in r}
AllOk == \A i \in 1..Len(fetchLog) : fetchLog[i].res = "ok"
Pending == {to_visit[i][1] : i \in 1..Len(to_visit)}

\* C11: a crawl with depth = 0 and max_pages >= 1 calls arun exactly once,
\* for the seed URL; no link found on the seed page is fetched.
C11_DepthZeroFetchesSeedOnly ==
  (~single_page /\ depth = 0 /\ max_pages >= 1) =>
    /\ Len(fetchLog) <= 1
    /\ \A i \in 1..Len(fetchLog) :
         fetchLog[i].url = start_url /\ fetchLog[i].depth = 0
    /\ pc \in {"fetch", "sleep", "raised", "caught", "aexit", "returned",
               "exited"} => Len(fetchLog) = 1
    /\ Fetched \cap (UNION {Edges(u) : u \in Fetched} \ {start_url}) = {}

\* a depth-0 crawl whose seed page links to other pages has ended
C11_Witness ==
  /\ ~single_page
  /\ depth = 0
  /\ max_pages >= 1
  /\ pc = "exited"
  /\ Edges(start_url) \ {start_url} # {}

\* C12: when every fetch succeeds and more than max_pages URLs (max_pages >= 1)
\* are within depth links of the seed, the run makes exactly max_pages
\* fetches, writes and counts max_pages pages, returns max_pages and leaves
\* unfetched entries in the frontier.
C12_QuotaCutOff ==
  (/\ ~single_page
   /\ max_pages >= 1
   /\ depth >= 0
   /\ pc \in {"aexit", "returned", "exited"}
   /\ AllOk
   /\ ~Errored
   /\ Cardinality(Reach(depth)) > max_pages) =>
    /\ Len(fetchLog) = max_pages
    /\ Len(written) = max_pages
    /\ pages_scraped = max_pages
    /\ pc = "returned" => ret = max_pages
    /\ Pending \ Fetched # {}

\* a run over a site larger than its quota has returned
C12_Witness ==
  /\ ~single_page
  /\ max_pages >= 2
  /\ depth >= 1
  /\ pc = "returned"
  /\ AllOk
  /\ ~Errored
  /\ Cardinality(Reach(depth)) > max_pages

\* ---- file names: the paths the derivation is tried on ----

MaxPathLen == 4
Chars == {Slash, "a", "_"}
Paths == UNION {[1..n -> Chars] : n \in 0..MaxPathLen}
NoSlash(s) == \A i \in 1..Len(s) : s[i] # Slash
AllSlash(s) == \A i \in 1..Len(s) : s[i] = Slash
EndsWithMd(s) == Len(s) > Len(Md) /\ SubSeq(s, Len(s) - 2, Len(s)) = Md
GuidesIntro ==
  <<"/", "g", "u", "i", "d", "e", "s", "/", "i", "n", "t", "r", "o">>
GuidesIntroMd ==
  <<"g", "u", "i", "d", "e", "s", "_", "i", "n", "t", "r", "o", ".", "m", "d">>

\* the derivation on every path of Paths and on the paths the spec names
FilenameLaws ==
  /\ \A p \in Paths :
       LET f == SiteFilename(p) IN
         /\ NoSlash(f)
         /\ EndsWithMd(f)
         /\ f = SingleFilename(p, NoPrefix)
         /\ SiteFilename(<<Slash>> \o p) = f
         /\ SiteFilename(p \o <<Slash>>) = f
         /\ AllSlash(p) => f = Index \o Md
         /\ (p # <<>> /\ NoSlash(p)) => f = p \o Md
         /\ \A q \in Paths :
              (Len(q) = Len(p) /\ NoSlash(p) /\ NoSlash(q) /\ p # <<>>
                 /\ Len(p) + 1 <= MaxPathLen)
                => SiteFilename(p \o <<Slash>> \o q) = p \o <<"_">> \o q \o Md
  /\ SiteFilename(<<"/", "a", "/", "b", "/">>) = SiteFilename(<<"a", "/", "b">>)
  /\ SiteFilename(<<"a", "/", "b">>) = <<"a", "_", "b", ".", "m", "d">>
  /\ SiteFilename(<<>>) = Index \o Md
  /\ SiteFilename(GuidesIntro) = GuidesIntroMd
  /\ SingleFilename(GuidesIntro, NoPrefix) = GuidesIntroMd

\* C13: the file name of a URL path is the path without its leading and
\* trailing '/', with every other '/' replaced by '_', 'index' if that is
\* empty, followed by '.md'; it holds no '/', and scrape_site and
\* scrape_single_page (without prefix) give the same name, also for every
\* document of the output directory.
C13_FilenameDerivation ==
  /\ FilenameLaws
  /\ \A f \in DOMAIN files :
       /\ NoSlash(f)
       /\ EndsWithMd(f)
       /\ f = SiteFilename(PathOf(files[f]))
       /\ f = SingleFilename(PathOf(files[f]), NoPrefix)

\* a crawl has written the page of path /a/b/ to a_b.md
C13_Witness ==
  /\ ~single_page
  /\ pc = "exited"
  /\ <<"a", "_", "b", ".", "m", "d">> \in DOMAIN files
  /\ files[<<"a", "_", "b", ".", "m", "d">>] = 2
  /\ PathOf(2) = <<"/", "a", "/", "b", "/">>

\* C14: with --single, arun is called exactly once, for the given URL,
\* whatever max_pages and depth are; there is no frontier; the document is
\* written exactly when the fetch succeeded and the value returned is True
\* exactly then; the links of the page are not followed.
C14_SinglePage ==
  single_page =>
    /\ Len(fetchLog) <= 1
    /\ pc # "main" =>
         /\ Len(fetchLog) = 1
         /\ fetchLog[1].url = start_url
    /\ to_visit = <<>>
    /\ visited = {}
    /\ discardLog = <<>>
    /\ pages_scraped = 0
    /\ written \in {<<>>, <<start_url>>}
    /\ Cardinality(DOMAIN files) = Len(written)
    /\ written # <<>> => fetchLog[1].res = "ok"
    /\ (pc \in {"aexit", "returned", "exited"} /\ ~Errored) =>
         /\ ret = (fetchLog[1].res = "ok")
         /\ (written = <<start_url>>) = (fetchLog[1].res = "ok")

\* a single-page run with max_pages <= 0 and depth <= 0 has saved a page
\* that links to other pages, and exits 0
C14_Witness ==
  /\ single_page
  /\ max_pages <= 0
  /\ depth <= 0
  /\ pc = "exited"
  /\ exitCode = 0
  /\ written = <<start_url>>
  /\ Edges(start_url) \ {start_url} # {}

\* C15 as stated: in a depth = 0 crawl the links found on the seed page are
\* enqueued at depth 1 (to be discarded at dequeue by the depth test).
C15_LinksEnqueuedAtDepthOne ==
  (~single_page /\ depth = 0 /\ pc = "sleep") =>
    \A v \in Edges(start_url) \ visited :
      \E i \in 1..Len(to_visit) : to_visit[i] = <<v, 1>>

\* C15, amended: in a crawl with depth >= 0 no entry deeper than depth is
\* ever enqueued or discarded; with depth = 0 the links found on the seed
\* page are not enqueued at all: the frontier only ever holds the seed entry
\* and nothing is discarded.
C15_DepthLimitAtEnqueue ==
  (~single_page /\ depth >= 0) =>
    /\ \A i \in 1..Len(to_visit) : to_visit[i][2] <= depth
    /\ \A i \in 1..Len(discardLog) : discardLog[i][2] <= depth
    /\ depth = 0 =>
         /\ to_visit \in {<<>>, <<<<start_url, 0>>>>}
         /\ discardLog = <<>>
         /\ fetchLog # <<>> => to_visit = <<>>

\* the seed page of a depth-0 crawl links to other pages and the frontier
\* is empty after its links were looked at
C15_Witness ==
  /\ ~single_page
  /\ depth = 0
  /\ pc = "sleep"
  /\ Edges(start_url) \ visited # {}
  /\ to_visit = <<>>

\* the pages fetched successfully below the depth limit that list their own
\* URL among their links
SelfLinked ==
  {i \in OkCalls : /\ fetchLog[i].url \in fetchLog[i].links
                   /\ fetchLog[i].depth < depth}

\* C16 as stated: the self-link of a successfully fetched page is discarded
\* at dequeue time: once the frontier has been emptied, the entry made for
\* it is among the discarded ones.
C16_SelfLinkDiscardedAtDequeue ==
  (~single_page /\ pc = "exited" /\ to_visit = <<>> /\ ~Errored) =>
    \A i \in SelfLinked :
      \E j \in 1..Len(discardLog) :
        discardLog[j] = <<fetchLog[i].url, fetchLog[i].depth + 1>>

\* C16, amended: the self-link of a successfully fetched page is dropped at
\* enqueue time, because the URL is in visited since before its fetch: no
\* entry for the page's own URL is appended when its links are looked at.
\* And every run ends.
C16_SelfLinkDroppedAtEnqueue ==
  /\ [][(~single_page /\ pc = "fetch" /\ pc' = "sleep") =>
          /\ cur[1] \in visited
          /\ \A i \in (Len(to_visit) + 1)..Len(to_visit') :
               to_visit'[i][1] # cur[1]]_vars
  /\ <>(pc = "exited")

\* a crawl has ended on the empty frontier after a page below the depth
\* limit listed its own URL, and nothing was ever discarded
C16_Witness ==
  /\ ~single_page
  /\ pc = "exited"
  /\ to_visit = <<>>
  /\ ~Errored
  /\ SelfLinked # {}
  /\ discardLog = <<>>

\* C17: a link of a page below the depth limit is appended to the frontier
\* whenever its URL is not in visited, also when the URL is already pending;
\* a dequeued entry leads to a fetch only if its URL is not in visited, which
\* the fetch then adds, and an entry whose URL is in visited is discarded
\* without a fetch: of several entries for one URL only the first dequeued
\* can be fetched.
C17_DedupAgainstVisitedOnly ==
  /\ [][(~single_page /\ pc = "fetch" /\ pc' = "sleep" /\ cur[2] < depth) =>
          \A v \in Last(fetchLog').links \ visited :
            \E i \in (Len(to_visit) + 1)..Len(to_visit') :
              to_visit'[i] = <<v, cur[2] + 1>>]_vars
  /\ [][(~single_page /\ pc = "loop" /\ to_visit' # to_visit) =>
          LET url == Head(to_visit)[1] IN
            /\ to_visit' = Tail(to_visit)
            /\ url \in visited =>
                 /\ fetchLog' = fetchLog
                 /\ visited' = visited
                 /\ discardLog' = Append(discardLog, Head(to_visit))
                 /\ pc' = "loop"
            /\ fetchLog' # fetchLog =>
                 /\ url \notin visited
                 /\ visited' = visited \cup {url}
                 /\ Last(fetchLog').url = url]_vars
  /\ [](\A i, j \in 1..Len(fetchLog) :
          fetchLog[i].url = fetchLog[j].url => i = j)
  /\ []((~single_page /\ depth >= 0) =>
          \A i \in 1..Len(discardLog) : discardLog[i][1] \in Fetched)

\* the frontier holds two entries for one URL that is not visited yet, after
\* a second entry of a fetched URL was discarded
C17_Witness ==
  /\ ~single_page
  /\ pc = "loop"
  /\ \E i, j \in 1..Len(to_visit) :
       /\ i < j
       /\ to_visit[i][1] = to_visit[j][1]
       /\ to_visit[i][1] \notin visited
  /\ \E i \in 1..Len(discardLog) : discardLog[i][1] \in Fetched

\* C18: the quota counts successes only: a failed fetch leaves pages_scraped
\* as it is, pages_scraped counts the saved pages and never exceeds
\* max_pages, and the loop is left with entries pending only when the
\* successes (not the attempts) have reached max_pages; the number of arun
\* calls is not bounded by max_pages (C18_Witness).
C18_QuotaCountsSuccesses ==
  /\ [][(~single_page /\ pc = "fetch" /\ pc' # "fetch"
           /\ Last(fetchLog').res = "fail") =>
          pages_scraped' = pages_scraped]_vars
  /\ [](~single_page =>
          /\ pages_scraped = Len(written)
          /\ pages_scraped <= Cardinality(OkCalls)
          /\ max_pages >= 0 => succeeded <= max_pages)
  /\ []((/\ ~single_page
         /\ max_pages >= 0
         /\ pc \in {"aexit", "returned"}
         /\ ~Errored
         /\ to_visit # <<>>) =>
          /\ Cardinality(OkCalls) = max_pages
          /\ attempted = max_pages + failed)

\* a run has returned after more arun calls than max_pages, some of them
\* failed
C18_Witness ==
  /\ ~single_page
  /\ pc = "returned"
  /\ max_pages >= 1
  /\ attempted > max_pages
  /\ succeeded <= max_pages
  /\ failed >= 1

\* the least number of links from the seed to u, through pages fetched
\* successfully
Dist(u) ==
  CHOOSE k \in 0..depth : u \in Reach(k) /\ (k = 0 \/ u \notin Reach(k - 1))

\* C19: when a crawl leaves the loop with the frontier empty, the URLs arun
\* was called on are exactly those at most `depth` links away from the seed
\* through successfully fetched pages; every URL is fetched at its least
\* such distance; and visited is the set of fetched URLs throughout.
C19_CrawlComplete ==
  ~single_page =>
    /\ visited = Fetched
    /\ depth >= 0 =>
         /\ Fetched \subseteq Reach(depth)
         /\ \A i \in 1..Len(fetchLog) :
              fetchLog[i].depth = Dist(fetchLog[i].url)
    /\ (/\ depth >= 0
        /\ pc \in {"aexit", "returned", "exited"}
        /\ to_visit = <<>>
        /\ ~Errored) => Fetched = Reach(depth)

\* a crawl has ended on the empty frontier, below its quota, after several
\* fetches, and a page at the depth limit links to a URL that was not fetched
C19_Witness ==
  /\ ~single_page
  /\ pc = "exited"
  /\ to_visit = <<>>
  /\ ~Errored
  /\ pages_scraped < max_pages
  /\ Len(fetchLog) >= 2
  /\ UNION {Edges(u) : u \in Fetched} \ Fetched # {}

\* the positions of written whose document went to file f
WritesTo(f) ==
  {i \in 1..Len(written) : SiteFilename(PathOf(written[i])) = f}

\* C20: in a crawl a document is written exactly when a fetch succeeded and
\* never on a failed or discarded entry: the number of writes is
\* pages_scraped, no URL is written twice, and every write follows its own
\* successful fetch.  A write replaces the file of the same name, so the
\* output directory holds at most pages_scraped files (C20_Witness: fewer),
\* each with the document written to its name last.
C20_PersistencePerSuccess ==
  /\ [][(~single_page /\ (written' # written \/ files' # files)) =>
          /\ pc = "fetch"
          /\ Last(fetchLog').res = "ok"
          /\ Last(fetchLog').url = cur[1]
          /\ written' = Append(written, cur[1])
          /\ pages_scraped' = pages_scraped + 1
          /\ DOMAIN files' = DOMAIN files \cup {SiteFilename(PathOf(cur[1]))}
          /\ files'[SiteFilename(PathOf(cur[1]))] = cur[1]]_vars
  /\ [](~single_page =>
          /\ Len(written) = succeeded
          /\ \A i, j \in 1..Len(written) : written[i] = written[j] => i = j
          /\ \A i \in 1..Len(written) :
               \E k \in OkCalls : fetchLog[k].url = written[i]
          /\ ~Errored => Len(written) = Cardinality(OkCalls)
          /\ Cardinality(DOMAIN files) <= succeeded
          /\ \A i \in 1..Len(written) :
               SiteFilename(PathOf(written[i])) \in DOMAIN files
          /\ \A f \in DOMAIN files :
               /\ WritesTo(f) # {}
               /\ \E i \in WritesTo(f) :
                    /\ files[f] = written[i]
                    /\ \A j \in WritesTo(f) : j <= i)

\* a crawl has ended with fewer files than saved pages: two URLs have the
\* same file name
C20_Witness ==
  /\ ~single_page
  /\ pc = "exited"
  /\ ~Errored
  /\ Cardinality(DOMAIN files) < succeeded
  /\ \E i, j \in 1..Len(written) :
       /\ i < j
       /\ PathOf(written[i]) # PathOf(written[j])
       /\ SiteFilename(PathOf(written[i])) = SiteFilename(PathOf(written[j]))

====
